---- MODULE Spec2Model ----
(***************************************************************************)
(* Model of the article index build of mortal-blog.                        *)
(*                                                                         *)
(* Two versions of the build script exist in the repository:               *)
(*   "tag"  src/build/generate-articles.js  (leading <meta .../> tag)       *)
(*   "fm"   src/unnamed/part_002            (gray-matter front matter)      *)
(* Both scan ./articles, map every .md file to a record, sort, and write   *)
(* the index artifact.                                                     *)
(*                                                                         *)
(* A JavaScript string is modelled as a sequence of one-character strings, *)
(* so that the regular expressions and string methods of the scripts are   *)
(* computed on characters.  A JavaScript `undefined` is the value          *)
(* Undefined, which is no sequence of characters.                          *)
(***************************************************************************)
EXTENDS Integers, Sequences, FiniteSets, TLC

\* ------------------------------------------------------------------------
\* Bounds of the model
\* ------------------------------------------------------------------------
MaxFiles == 3          \* files under ./articles
MaxRuns == 2           \* runs of the build command on the same tree
LongLen == 54          \* length of the long texts of the corpus

\* ------------------------------------------------------------------------
\* Values and characters
\* ------------------------------------------------------------------------
Undefined == <<"undefined">>
NaN == -1              \* the time value of an Invalid Date; valid ones are > 0

maxWord == 50

WhiteSpace == {" ", "\n", "\t"}

Digits == {"0", "1", "2", "3", "4", "5", "6", "7", "8", "9"}

Letters == {"a", "b", "c", "d", "e", "f", "g", "h", "i", "j", "k", "l", "m",
            "n", "o", "p", "q", "r", "s", "t", "u", "v", "w", "x", "y", "z",
            "A", "B", "C", "D", "E", "F", "G", "H", "I", "J", "K", "L", "M",
            "N", "O", "P", "Q", "R", "S", "T", "U", "V", "W", "X", "Y", "Z"}

\* the class \w of a JavaScript regular expression
WordChars == Letters \cup Digits \cup {"_"}

Quotes == {"\"", "'"}

\* ------------------------------------------------------------------------
\* String methods
\* ------------------------------------------------------------------------
Min(a, b) == IF a < b THEN a ELSE b

\* s.substring(from) with from counted from 0
Drop(s, n) == IF n >= Len(s) THEN <<>> ELSE SubSeq(s, n + 1, Len(s))

\* s.substring(0, n)
Take(s, n) == SubSeq(s, 1, Min(n, Len(s)))

\* s.startsWith(p, at) with at counted from 1
StartsWithAt(s, p, at) ==
    /\ at + Len(p) - 1 <= Len(s)
    /\ \A i \in 1..Len(p) : s[at + i - 1] = p[i]

\* the least element of a non-empty set of numbers
MinOf(S) == CHOOSE i \in S : \A j \in S : i <= j

\* length of the longest run of characters of class cls that starts at `at`
RunLen(s, cls, at) ==
    IF at > Len(s) THEN 0
    ELSE CHOOSE k \in 0..(Len(s) - at + 1) :
            /\ \A i \in at..(at + k - 1) : s[i] \in cls
            /\ at + k > Len(s) \/ s[at + k] \notin cls

\* length of the longest run of characters outside class cls starting at `at`
RunLenNot(s, cls, at) ==
    LET stops == {i \in at..Len(s) : s[i] \in cls}
    IN  IF at > Len(s) THEN 0
        ELSE IF stops = {} THEN Len(s) - at + 1
        ELSE MinOf(stops) - at

\* String.prototype.trim
Trim(s) ==
    LET lead == RunLen(s, WhiteSpace, 1)
        rest == Drop(s, lead)
        keep == IF rest = <<>> THEN 0
                ELSE CHOOSE k \in 1..Len(rest) :
                        /\ rest[k] \notin WhiteSpace
                        /\ \A j \in (k + 1)..Len(rest) : rest[j] \in WhiteSpace
    IN  Take(rest, keep)

\* s.split(sep) for a one-character separator
RECURSIVE Split(_, _)
Split(s, sep) ==
    LET n == RunLenNot(s, {sep}, 1)
    IN  IF n = Len(s) THEN <<s>>
        ELSE <<Take(s, n)>> \o Split(Drop(s, n + 1), sep)

\* parts.join(sep)
RECURSIVE Join(_, _)
Join(parts, sep) ==
    IF parts = <<>> THEN <<>>
    ELSE IF Len(parts) = 1 THEN parts[1]
    ELSE parts[1] \o sep \o Join(Tail(parts), sep)

\* s.replace(/\s+/g, ' ')
RECURSIVE CollapseWhiteSpace(_)
CollapseWhiteSpace(s) ==
    LET n == RunLenNot(s, WhiteSpace, 1)
    IN  IF n = Len(s) THEN s
        ELSE Take(s, n) \o <<" ">>
             \o CollapseWhiteSpace(Drop(s, n + RunLen(s, WhiteSpace, n + 1)))

\* s.replace(/<[^>]+>/g, ''): a match is a '<', one or more characters
\* other than '>', and the '>' that follows them
RECURSIVE StripTags(_)
StripTags(s) ==
    LET opens == {i \in 1..Len(s) :
                    /\ s[i] = "<"
                    /\ RunLenNot(s, {">"}, i + 1) >= 1
                    /\ i + RunLenNot(s, {">"}, i + 1) + 1 <= Len(s)}
    IN  IF opens = {} THEN s
        ELSE LET first == MinOf(opens)
                 n == RunLenNot(s, {">"}, first + 1)
             IN  Take(s, first - 1) \o StripTags(Drop(s, first + n + 1))

\* trimmed.split(/\s+/): the maximal runs of non-blank characters
RECURSIVE SplitWhiteSpace(_)
SplitWhiteSpace(s) ==
    LET n == RunLenNot(s, WhiteSpace, 1)
        w == RunLen(s, WhiteSpace, n + 1)
    IN  IF n = Len(s) THEN <<s>>
        ELSE <<Take(s, n)>> \o SplitWhiteSpace(Drop(s, n + w))

\* a text of n characters c
Rep(c, n) == [i \in 1..n |-> c]

\* ------------------------------------------------------------------------
\* Objects: a JavaScript object is a function from its own keys
\* ------------------------------------------------------------------------
EmptyObject == <<>>

\* obj[key] = value
Put(obj, key, value) ==
    [k \in (DOMAIN obj) \cup {key} |-> IF k = key THEN value ELSE obj[k]]

\* obj.key
Get(obj, key) == IF key \in DOMAIN obj THEN obj[key] ELSE Undefined

\* a value that `||` passes over: undefined or the empty string
Falsy(v) == v = Undefined \/ v = <<>>

\* the code point U+FF0C (full-width comma), one character of the text
FullWidthComma == "FF0C"

kTitle == <<"t", "i", "t", "l", "e">>
kDate == <<"d", "a", "t", "e">>
kDesc == <<"d", "e", "s", "c">>
kTags == <<"t", "a", "g", "s">>
kCover == <<"c", "o", "v", "e", "r">>
kImage == <<"i", "m", "a", "g", "e">>

\* ------------------------------------------------------------------------
\* Tag variant: the leading <meta .../> tag
\* ------------------------------------------------------------------------
MetaOpen == <<"<", "m", "e", "t", "a">>

\* fileContent.match(/^<meta\s+([^>]+)\/?>/): the captured group, or
\* Undefined when the text does not match.  The greedy group takes every
\* character up to the first '>', a trailing '/' included.
MetaMatch(fileContent) ==
    LET at == Len(MetaOpen) + 1
        ws == RunLen(fileContent, WhiteSpace, at)
        upTo == RunLenNot(fileContent, {">"}, at)
        closed == at + upTo <= Len(fileContent)
    IN  IF ~StartsWithAt(fileContent, MetaOpen, 1) \/ ~closed \/ ws = 0
        THEN Undefined
        ELSE IF upTo > ws THEN SubSeq(fileContent, at + ws, at + upTo - 1)
        ELSE IF ws >= 2 THEN SubSeq(fileContent, at + ws - 1, at + ws - 1)
        ELSE Undefined

\* the value stored for an attribute: tags becomes an array
AttrValue(key, value) ==
    IF key = kTags
    THEN LET parts == Split(value, FullWidthComma)
         IN  [i \in 1..Len(parts) |-> Trim(parts[i])]
    ELSE value

\* the loop over attrRegex.exec(metaString) with
\* attrRegex = /(\w+)=["']([^"']+)["']/g, started at index `at`
RECURSIVE ParseAttrs(_, _, _)
ParseAttrs(metaString, at, data) ==
    IF at > Len(metaString) THEN data
    ELSE LET k == RunLen(metaString, WordChars, at)
             q == at + k + 1
             v == RunLenNot(metaString, Quotes, q + 1)
             hit == /\ k >= 1
                    /\ q + 1 + v <= Len(metaString)
                    /\ metaString[at + k] = "="
                    /\ metaString[q] \in Quotes
                    /\ v >= 1
         IN  IF hit
             THEN LET key == SubSeq(metaString, at, at + k - 1)
                      value == SubSeq(metaString, q + 1, q + v)
                  IN  ParseAttrs(metaString, q + v + 2,
                                 Put(data, key, AttrValue(key, value)))
             ELSE ParseAttrs(metaString, at + 1, data)

\* the object `data` of the tag variant
TagData(fileContent) ==
    LET metaString == MetaMatch(fileContent)
    IN  IF metaString = Undefined THEN EmptyObject
        ELSE ParseAttrs(metaString, 1, EmptyObject)

\* converter.makeHtml(text), for the markdown the corpus is written in:
\* a blank text renders to nothing, a '# ' line to a heading, anything else
\* to one paragraph; inline HTML is passed through unchanged.
makeHtml(text) ==
    LET t == Trim(text)
    IN  IF t = <<>> THEN <<>>
        ELSE IF StartsWithAt(t, <<"#", " ">>, 1)
             THEN <<"<", "h", "1", ">">> \o Drop(t, 2)
                  \o <<"<", "/", "h", "1", ">">>
             ELSE <<"<", "p", ">">> \o t \o <<"<", "/", "p", ">">>

\* wordCount of the tag variant
TagWordCount(fileContent) ==
    LET html == makeHtml(fileContent)
        content == StripTags(html)
    IN  Len(Trim(CollapseWhiteSpace(content)))

\* ------------------------------------------------------------------------
\* Paths
\* ------------------------------------------------------------------------
Slash == <<"/">>

ArticlesRoot == << <<"a", "r", "t", "i", "c", "l", "e", "s">> >>

\* a path is the sequence of its components; PathString writes it out
PathString(p) == Join(p, Slash)

\* path.relative('./articles', filePath)
Relative(root, p) ==
    IF Len(p) >= Len(root) /\ SubSeq(p, 1, Len(root)) = root
    THEN Drop(p, Len(root))
    ELSE [i \in 1..Len(root) |-> <<".", ".">>] \o p

\* path.basename(filePath)
BaseName(p) == p[Len(p)]

\* path.extname(item): from the last '.' of the name, unless that is its
\* first character
ExtName(item) ==
    LET dots == {i \in 1..Len(item) : item[i] = "."}
    IN  IF dots = {} THEN <<>>
        ELSE LET last == CHOOSE i \in dots : \A j \in dots : j <= i
             IN  IF last = 1 THEN <<>> ELSE Drop(item, last - 1)

DotMd == <<".", "m", "d">>

\* ------------------------------------------------------------------------
\* Front-matter variant: gray-matter
\* ------------------------------------------------------------------------
Delimiter == <<"-", "-", "-">>

\* s.indexOf(p), counted from 1; 0 when p does not occur
IndexOf(s, p) ==
    LET hits == {i \in 1..Len(s) : StartsWithAt(s, p, i)}
    IN  IF hits = {} THEN 0 ELSE CHOOSE i \in hits : \A j \in hits : i <= j

\* seq.filter(line => line.trim() !== '')
RECURSIVE NonBlank(_)
NonBlank(lines) ==
    IF lines = <<>> THEN <<>>
    ELSE IF Trim(lines[1]) = <<>> THEN NonBlank(Tail(lines))
    ELSE <<lines[1]>> \o NonBlank(Tail(lines))

\* the value of one `key: value` line of the block; [a, b] is a sequence
YamlValue(text) ==
    LET v == Trim(text)
    IN  IF Len(v) >= 2 /\ v[1] = "[" /\ v[Len(v)] = "]"
        THEN LET inner == Trim(SubSeq(v, 2, Len(v) - 1))
                 parts == Split(inner, ",")
             IN  IF inner = <<>> THEN <<>>
                 ELSE [i \in 1..Len(parts) |-> Trim(parts[i])]
        ELSE v

\* the block's lines, one key per line in `key: value` form
RECURSIVE YamlLines(_, _)
YamlLines(lines, data) ==
    IF lines = <<>> THEN data
    ELSE LET line == lines[1]
             colon == IndexOf(line, <<":">>)
         IN  IF colon <= 1 THEN YamlLines(Tail(lines), data)
             ELSE YamlLines(Tail(lines),
                            Put(data, Trim(Take(line, colon - 1)),
                                YamlValue(Drop(line, colon))))

\* matter(fileContent): [data, content].  A text that does not open with
\* the delimiter has no data and is all content.
matter(fileContent) ==
    LET open == Len(Delimiter)
        hasBlock == /\ StartsWithAt(fileContent, Delimiter, 1)
                    /\ ~StartsWithAt(fileContent, <<"-">>, open + 1)
        str == Drop(fileContent, open)
        close == IndexOf(str, <<"\n">> \o Delimiter)
        block == IF close = 0 THEN str ELSE Take(str, close - 1)
        rest == IF close = 0 THEN <<>> ELSE Drop(str, close + open)
        content == IF rest # <<>> /\ rest[1] = "\n" THEN Tail(rest) ELSE rest
    IN  IF ~hasBlock THEN [data |-> EmptyObject, content |-> fileContent]
        ELSE [data |-> YamlLines(NonBlank(Split(block, "\n")), EmptyObject),
              content |-> content]

\* wordCount of the front-matter variant
FmWordCount(content) ==
    IF Trim(content) # <<>> THEN Len(SplitWhiteSpace(Trim(content))) ELSE 0

\* preview of the front-matter variant
FmPreview(content) ==
    LET previewLines == Take(NonBlank(Split(content, "\n")), 5)
    IN  Take(Join(previewLines, <<" ">>), maxWord) \o <<".", ".", ".">>

\* ------------------------------------------------------------------------
\* Dates
\* ------------------------------------------------------------------------
DigitSeq == <<"0", "1", "2", "3", "4", "5", "6", "7", "8", "9">>

DigitVal(c) == (CHOOSE i \in 1..10 : DigitSeq[i] = c) - 1

RECURSIVE Num(_)
Num(s) == IF s = <<>> THEN 0 ELSE 10 * Num(Take(s, Len(s) - 1)) + DigitVal(s[Len(s)])

\* new Date(value).getTime() for the date-only form YYYY-MM-DD, counted in
\* days of a 31-day-month calendar (the order of the time values is kept);
\* NaN for undefined and for any other text
DateValue(value) ==
    LET wellFormed ==
            /\ value # Undefined
            /\ Len(value) = 10
            /\ value[5] = "-" /\ value[8] = "-"
            /\ \A i \in {1, 2, 3, 4, 6, 7, 9, 10} : value[i] \in Digits
        y == Num(SubSeq(value, 1, 4))
        m == Num(SubSeq(value, 6, 7))
        d == Num(SubSeq(value, 9, 10))
    IN  IF wellFormed /\ m \in 1..12 /\ d \in 1..31
        THEN (y * 12 + (m - 1)) * 31 + d
        ELSE NaN

\* the comparator (a, b) => new Date(b[key]) - new Date(a[key]); sort reads
\* a NaN result as +0
CompareByDate(a, b, key) ==
    LET ta == DateValue(Get(a, key))
        tb == DateValue(Get(b, key))
    IN  IF ta = NaN \/ tb = NaN THEN 0 ELSE tb - ta

\* ------------------------------------------------------------------------
\* Array.prototype.sort
\* ------------------------------------------------------------------------
\* the bijections of 1..n
Perms(n) == {p \in [1..n -> 1..n] : \A i, j \in 1..n : p[i] = p[j] => i = j}

\* a consistent comparator orders the elements as a strict weak order
ConsistentByDate(arr, key) ==
    \A i, j, k \in 1..Len(arr) :
        LET ij == CompareByDate(arr[i], arr[j], key)
            jk == CompareByDate(arr[j], arr[k], key)
            ik == CompareByDate(arr[i], arr[k], key)
        IN  /\ (ij = 0 /\ jk = 0) => ik = 0
            /\ (ij < 0 /\ jk < 0) => ik < 0
            /\ (ij < 0 /\ jk = 0) => ik < 0
            /\ (ij = 0 /\ jk < 0) => ik < 0

\* x put behind every element of the sorted array that is not after it
InsertByDate(sorted, x, key) ==
    LET after == {i \in 1..Len(sorted) : CompareByDate(sorted[i], x, key) > 0}
        at == IF after = {} THEN Len(sorted) + 1
              ELSE CHOOSE i \in after : \A j \in after : i <= j
    IN  Take(sorted, at - 1) \o <<x>> \o Drop(sorted, at - 1)

RECURSIVE StableSortByDate(_, _)
StableSortByDate(arr, key) ==
    IF arr = <<>> THEN <<>>
    ELSE InsertByDate(StableSortByDate(Take(arr, Len(arr) - 1), key),
                      arr[Len(arr)], key)

\* arr.sort((a, b) => new Date(b[key]) - new Date(a[key])): the stable
\* sort when the comparator is consistent; otherwise the order is
\* implementation-defined and any arrangement of the elements may result
SortByDate(arr, key) ==
    IF ConsistentByDate(arr, key) THEN {StableSortByDate(arr, key)}
    ELSE {[i \in 1..Len(arr) |-> arr[p[i]]] : p \in Perms(Len(arr))}

\* ------------------------------------------------------------------------
\* extractArticleInfo
\* ------------------------------------------------------------------------
\* data.tags || []
TagsOrEmpty(data) == IF kTags \in DOMAIN data THEN data[kTags] ELSE <<>>

\* data.cover || data.image || ''
CoverOrImage(data) ==
    IF ~Falsy(Get(data, kCover)) THEN Get(data, kCover)
    ELSE IF ~Falsy(Get(data, kImage)) THEN Get(data, kImage)
    ELSE <<>>

\* a mistaken identifier: the file's base name instead of its relative path
RecordPathBaseName(filePath) == BaseName(filePath)

\* the record's filePath: path.relative('./articles', filePath)
RecordPath(filePath) == PathString(Relative(ArticlesRoot, filePath))

\* the record the tag variant returns for a file
extractArticleInfoTag(filePath, fileContent) ==
    LET data == TagData(fileContent)
    IN  [title |-> Get(data, kTitle),
         filePath |-> RecordPath(filePath),
         cover |-> Get(data, kCover),
         date |-> Get(data, kDate),
         wordCount |-> TagWordCount(fileContent),
         preview |-> Get(data, kDesc),
         tags |-> TagsOrEmpty(data)]

\* the record the front-matter variant returns for a file
extractArticleInfoFm(filePath, fileContent) ==
    LET m == matter(fileContent)
    IN  [title |-> Get(m.data, kTitle),
         filePath |-> RecordPath(filePath),
         cover |-> CoverOrImage(m.data),
         date |-> Get(m.data, kDate),
         wordCount |-> FmWordCount(m.content),
         preview |-> FmPreview(m.content),
         tags |-> TagsOrEmpty(m.data)]

extractArticleInfo(v, filePath, fileContent) ==
    IF v = "tag" THEN extractArticleInfoTag(filePath, fileContent)
    ELSE extractArticleInfoFm(filePath, fileContent)

\* JSON.stringify leaves out the properties whose value is undefined
OptionalKeys == {"title", "cover", "date", "preview"}

StringifyRecord(r) ==
    [k \in {f \in DOMAIN r : f \notin OptionalKeys \/ r[f] # Undefined} |-> r[k]]

Stringify(arr) == [i \in 1..Len(arr) |-> StringifyRecord(arr[i])]

\* ------------------------------------------------------------------------
\* The corpus: the file names and file texts the tree is drawn from
\* ------------------------------------------------------------------------
NameA == <<"a", ".", "m", "d">>
NameB == <<"b", ".", "m", "d">>
NameS == <<"s">>

\* paths relative to ./articles; s is a subdirectory
Paths == {<<NameA>>, <<NameB>>, <<NameS, NameA>>}

\* the orders in which readdirSync may list names
Orders ==
    LET names == <<NameA, NameB, NameS>>
    IN  {[i \in 1..Len(names) |-> names[p[i]]] : p \in Perms(Len(names))}

DateOld == <<"2", "0", "2", "5", "-", "1", "1", "-", "2", "5">>
DateNew == <<"2", "0", "2", "5", "-", "1", "2", "-", "0", "5">>

Attr(key, value) == key \o <<"=", "\"">> \o value \o <<"\"">>

MetaFile(attrs, body) ==
    MetaOpen \o <<" ">> \o Join(attrs, <<" ">>) \o <<"/", ">", "\n">> \o body

FmLine(key, value) == key \o <<":", " ">> \o value

FmFile(lines, body) ==
    Delimiter \o <<"\n">> \o Join(lines, <<"\n">>) \o <<"\n">>
    \o Delimiter \o <<"\n">> \o body

\* tag file: every attribute, a two-word body
TagFull ==
    MetaFile(<<Attr(kTitle, <<"A">>), Attr(kDate, DateNew),
               Attr(kTags, <<"x", FullWidthComma, " ", "y">>),
               Attr(kDesc, <<"d", "d">>), Attr(kCover, <<"c">>)>>,
             <<"a", "b", " ", "c">>)

\* tag file: older date written first, no desc, a body of markup only
TagOld ==
    MetaFile(<<Attr(kDate, DateOld), Attr(kTitle, <<"B">>)>>,
             <<"<", "b", "r", ">">>)

\* tag file: neither title nor date, a long desc, no body
TagBare == MetaFile(<<Attr(kDesc, Rep("d", LongLen))>>, <<>>)

\* front-matter file: title, date and cover, a long one-word body
FmFull ==
    FmFile(<<FmLine(kTitle, <<"A">>), FmLine(kDate, DateNew),
             FmLine(kTags, <<"[", "x", ",", " ", "y", "]">>),
             FmLine(kImage, <<"c">>)>>,
           Rep("w", LongLen))

\* front-matter file: older date, a body of blanks
FmOld ==
    FmFile(<<FmLine(kDate, DateOld), FmLine(kTitle, <<"B">>)>>,
           <<" ", " ", "\n">>)

\* a file with neither header, as the articles of the repository
Plain == <<"#", " ", "h">>

\* a file that readFileSync cannot read
Unreadable == <<"EACCES">>

Corpus == {TagFull, TagOld, TagBare, FmFull, FmOld, Plain, Unreadable}

Trees ==
    UNION {[ps -> Corpus] :
             ps \in {q \in SUBSET Paths : Cardinality(q) <= MaxFiles}}

NoArtifact == [exists |-> FALSE, data |-> <<>>]

\* the artifact an earlier build may have left
OldArtifact ==
    [exists |-> TRUE,
     data |-> <<[title |-> <<"o">>, filePath |-> <<"o", ".", "m", "d">>,
                 wordCount |-> 1, tags |-> <<>>]>>]

\* no file is under study
NotWritten == [format |-> "none", attrs |-> <<>>, body |-> <<>>]

\* ------------------------------------------------------------------------
\* State
\* ------------------------------------------------------------------------
VARIABLES
    variant,        \* which build script is run: "tag" or "fm"
    rootExists,     \* ./articles exists
    tree,           \* relative path -> text of the file
    artifact,       \* the index artifact on disk
    pc,             \* position of the build process
    markdownFiles,  \* the scanner's result
    articles,       \* the array of records
    exitCode,       \* exit status of the run once pc is done or crashed
    runs,           \* number of the current run
    emitted,        \* what each completed run wrote, in order
    written,        \* what the author wrote into the one file under study
    returned,       \* the lists the calls of getMarkdownFiles under study
                    \* returned, in call order
    page,           \* the page the browser shows: "none", "list", "article"
    listVersion,    \* the script of the list page: "index.js" or "main.js"
    apiVersion,     \* the version of fetchArticleDetail the site ships
    allArticles,    \* the list page's array of records
    loaded,         \* the list page's load: "pending", "yes" or "failed"
    rendered,       \* the records whose cards the grid shows
    searched,       \* the last call of performSearch
    slug,           \* the id fetchArticleDetail was called with
    fetches,        \* the URLs passed to fetch, in call order
    detail,         \* what fetchArticleDetail returned and how it settled
    dirs,           \* the output directories that exist
    sync            \* the CDN sync: the tree it reads, main's position,
                    \* the uploads, the log and the exit status

\* the browser's state
browser == <<page, listVersion, apiVersion, allArticles, loaded, rendered,
             searched, slug, fetches, detail>>

\* the state that processArticles never touches
outsideBuild == <<written, returned, browser, dirs, sync>>

\* the sync script has not been started
NoSync == [pc |-> "idle"]

\* the directory processArticles creates and the one each variant writes into
DataDir == "./data"

ApiDir == "./public/js/api"

OutputDirs == {DataDir, ApiDir}

OutputDir(v) == IF v = "tag" THEN DataDir ELSE ApiDir

\* performSearch has not been called
NoSearch == [called |-> FALSE, by |-> "none", term |-> <<>>, threw |-> FALSE]

\* fetchArticleDetail has not been called
NoArticle == [none |-> TRUE]

NoDetail ==
    [returned |-> "none", state |-> "none", article |-> NoArticle,
     response |-> "none", value |-> NoArticle,
     loader |-> "none", fields |-> FALSE, content |-> "none",
     unhandled |-> FALSE]

\* no page is open
NoBrowser ==
    /\ page = "none"
    /\ listVersion = "index.js"
    /\ apiVersion = "byFilePath"
    /\ allArticles = <<>>
    /\ loaded = "pending"
    /\ rendered = <<>>
    /\ searched = NoSearch
    /\ slug = <<>>
    /\ fetches = <<>>
    /\ detail = NoDetail

vars == <<variant, rootExists, tree, artifact, pc, markdownFiles, articles,
          exitCode, runs, emitted, outsideBuild>>

\* ------------------------------------------------------------------------
\* getMarkdownFiles
\* ------------------------------------------------------------------------
IsPrefix(p, q) == Len(p) <= Len(q) /\ SubSeq(q, 1, Len(p)) = p

\* the tree's files below the directory dir (a full path)
Below(dir) ==
    LET rel == Relative(ArticlesRoot, dir)
    IN  {f \in DOMAIN tree : Len(f) > Len(rel) /\ IsPrefix(rel, f)}

\* fs.statSync(fullPath).isDirectory()
IsDirectory(fullPath) == Below(fullPath) # {}

\* fs.readdirSync(dir), listed in the order ord
readdirSync(dir, ord) ==
    LET depth == Len(Relative(ArticlesRoot, dir))
        names == {f[depth + 1] : f \in Below(dir)}
    IN  SelectSeq(ord, LAMBDA n : n \in names)

\* the loop of getMarkdownFiles over the items of dir
RECURSIVE WalkItems(_, _, _, _)
WalkItems(dir, items, files, ord) ==
    IF items = <<>> THEN files
    ELSE LET item == items[1]
             fullPath == dir \o <<item>>
             found ==
                 IF IsDirectory(fullPath)
                 THEN WalkItems(fullPath, readdirSync(fullPath, ord), files, ord)
                 ELSE IF ExtName(item) = DotMd THEN Append(files, fullPath)
                 ELSE files
         IN  WalkItems(dir, Tail(items), found, ord)

\* an accumulator created once and shared by every top-level call
DefaultFilesShared ==
    IF returned = <<>> THEN <<>> ELSE returned[Len(returned)]

\* the default value of the parameter: `files = []`, evaluated at each call
DefaultFiles == <<>>

getMarkdownFiles(dir, ord) ==
    WalkItems(dir, readdirSync(dir, ord), DefaultFiles, ord)

\* fs.readFileSync(filePath, 'utf-8')
readFileSync(filePath) == tree[Relative(ArticlesRoot, filePath)]

\* ------------------------------------------------------------------------
\* processArticles
\* ------------------------------------------------------------------------
Init ==
    /\ variant \in {"tag", "fm"}
    /\ rootExists \in BOOLEAN
    /\ tree \in Trees
    /\ ~rootExists => tree = <<>>
    /\ artifact \in {NoArtifact, OldArtifact}
    /\ pc = "scan"
    /\ markdownFiles = <<>>
    /\ articles = <<>>
    /\ exitCode = 0
    /\ runs = 1
    /\ emitted = <<>>
    /\ written = NotWritten
    /\ returned = <<>>
    /\ NoBrowser
    /\ dirs = OutputDirs
    /\ sync = NoSync

\* an exception nobody catches ends the process with status 1
Throw ==
    /\ pc' = "crashed"
    /\ exitCode' = 1

\* a scanner that takes a missing root for an empty one
ScanThrowsNever == FALSE

\* fs.readdirSync('./articles') throws ENOENT when the root is missing
ScanThrows == ~rootExists

\* const markdownFiles = getMarkdownFiles('./articles')
Scan ==
    /\ pc = "scan"
    /\ IF ScanThrows
       THEN /\ Throw
            /\ UNCHANGED markdownFiles
       ELSE /\ \E ord \in Orders :
                 markdownFiles' = getMarkdownFiles(ArticlesRoot, ord)
            /\ pc' = "map"
            /\ UNCHANGED exitCode
    /\ UNCHANGED <<variant, rootExists, tree, artifact, articles, runs, emitted>>
    /\ UNCHANGED outsideBuild

\* markdownFiles.map(filePath => extractArticleInfo(filePath))
Map ==
    /\ pc = "map"
    /\ IF \E i \in 1..Len(markdownFiles) :
             readFileSync(markdownFiles[i]) = Unreadable
       THEN /\ Throw
            /\ UNCHANGED articles
       ELSE /\ articles' =
                 [i \in 1..Len(markdownFiles) |->
                    extractArticleInfo(variant, markdownFiles[i],
                                       readFileSync(markdownFiles[i]))]
            /\ pc' = "sort"
            /\ UNCHANGED exitCode
    /\ UNCHANGED <<variant, rootExists, tree, artifact, markdownFiles, runs,
                   emitted>>
    /\ UNCHANGED outsideBuild

\* the sorts: by date (tag variant only), then by `modified`
SortedArticles(v, arr) ==
    LET first == IF v = "tag" THEN SortByDate(arr, "date") ELSE {arr}
    IN  UNION {SortByDate(a, "modified") : a \in first}

Sort ==
    /\ pc = "sort"
    /\ articles' \in SortedArticles(variant, articles)
    /\ pc' = "write"
    /\ UNCHANGED <<variant, rootExists, tree, artifact, markdownFiles,
                   exitCode, runs, emitted>>
    /\ UNCHANGED outsideBuild

\* a write placed ahead of the map over the scanned files
WriteEnabledEarly == pc \in {"map", "write"}

\* the write is the statement after the map and the sorts
WriteEnabled == pc = "write"

\* a build that leaves the artifact alone when there is nothing to list
WriteUnlessEmpty ==
    /\ WriteEnabled
    /\ IF articles = <<>>
       THEN UNCHANGED <<artifact, emitted>>
       ELSE /\ artifact' = [exists |-> TRUE, data |-> Stringify(articles)]
            /\ emitted' = Append(emitted, Stringify(articles))
    /\ pc' = "done"
    /\ exitCode' = 0
    /\ UNCHANGED <<variant, rootExists, tree, markdownFiles, articles, runs>>
    /\ UNCHANGED outsideBuild

\* if (!fs.existsSync('./data')) fs.mkdirSync('./data', {recursive: true});
\* fs.writeFileSync(..., JSON.stringify(articles, null, 4)); the run ends.
\* writeFileSync creates the file, never its directory: ENOENT when the
\* directory is missing.
Write ==
    /\ WriteEnabled
    /\ dirs' = dirs \cup {DataDir}
    /\ IF OutputDir(variant) \in dirs'
       THEN /\ artifact' = [exists |-> TRUE, data |-> Stringify(articles)]
            /\ emitted' = Append(emitted, Stringify(articles))
            /\ pc' = "done"
            /\ exitCode' = 0
       ELSE /\ Throw
            /\ UNCHANGED <<artifact, emitted>>
    /\ UNCHANGED <<variant, rootExists, tree, markdownFiles, articles, runs>>
    /\ UNCHANGED <<written, returned, browser, sync>>

\* the build command is run again on the unchanged tree
Rerun ==
    /\ pc \in {"done", "crashed"}
    /\ runs < MaxRuns
    /\ runs' = runs + 1
    /\ pc' = "scan"
    /\ markdownFiles' = <<>>
    /\ articles' = <<>>
    /\ exitCode' = 0
    /\ UNCHANGED <<variant, rootExists, tree, artifact, emitted>>
    /\ UNCHANGED outsideBuild

Next == Scan \/ Map \/ Sort \/ Write \/ Rerun

Spec == Init /\ [][Next]_vars

TypeOK ==
    /\ variant \in {"tag", "fm"}
    /\ pc \in {"scan", "map", "sort", "write", "done", "crashed"}
    /\ exitCode \in {0, 1}
    /\ runs \in 1..MaxRuns
    /\ Len(articles) <= Len(markdownFiles)

\* ------------------------------------------------------------------------
\* Properties of the emitted index
\* ------------------------------------------------------------------------
\* the run has ended by writing the index
Emitted == pc = "done"

Index == artifact.data

\* the source file of a record of the index
SourceOf(rec) == CHOOSE f \in DOMAIN tree : PathString(f) = rec.filePath

Dated(rec) == DateValue(Get(rec, "date")) # NaN

\* the order of the characters that occur in file paths
CharOrder == <<".", "/", "a", "b", "d", "m", "s">>

CharRank(c) == CHOOSE i \in 1..Len(CharOrder) : CharOrder[i] = c

\* s < t as JavaScript compares strings
LexLess(s, t) ==
    \E k \in 0..Min(Len(s), Len(t)) :
        /\ \A i \in 1..k : s[i] = t[i]
        /\ \/ k = Len(s) /\ k < Len(t)
           \/ k < Len(s) /\ k < Len(t) /\ CharRank(s[k + 1]) < CharRank(t[k + 1])

\* the file name of a record: what follows the last '/' of its filePath
FileNameOf(rec) ==
    LET parts == Split(rec.filePath, "/")
    IN  parts[Len(parts)]

\* C1: in every emitted index whose records all carry a date, of any two
\* adjacent records the first is not older than the second (most recent
\* first), whichever script ran and whatever order the scanner listed.
C1_SortedByDateDescending ==
    (Emitted /\ \A i \in 1..Len(Index) : Dated(Index[i])) =>
        \A i \in 1..(Len(Index) - 1) :
            DateValue(Index[i].date) >= DateValue(Index[i + 1].date)

\* C2: every record of an emitted index has a title: a file whose metadata
\* gives no title leaves no record.
C2_NoRecordWithoutTitle ==
    Emitted => \A i \in 1..Len(Index) : "title" \in DOMAIN Index[i]

\* C3: while the articles root exists no run ends in failure: a file that
\* cannot be read is skipped and the index is still written.
C3_ReadFailureIsSkipped ==
    rootExists => (pc # "crashed" /\ exitCode = 0)

\* C4: when the articles root does not exist, the run processes no file,
\* leaves the artifact as it was (absent, or the one of an earlier build)
\* and can only end crashed with exit status 1.
C4_MissingRootAborts ==
    ~rootExists =>
        /\ pc \in {"scan", "crashed"}
        /\ pc = "crashed" => exitCode = 1
        /\ markdownFiles = <<>>
        /\ articles = <<>>
        /\ emitted = <<>>
        /\ artifact \in {NoArtifact, OldArtifact}

\* C4 witness: a run on a missing root has crashed beside an old artifact
C4_Witness ==
    ~rootExists /\ pc = "crashed" /\ exitCode = 1 /\ artifact = OldArtifact

\* C5: two records of an emitted index that carry the same date stand in
\* ascending order of their file name (read as the relative path or as the
\* base name).
C5_TiesByFileName ==
    Emitted =>
        \A i, j \in 1..Len(Index) :
            (/\ i < j
             /\ Dated(Index[i])
             /\ DateValue(Index[i].date) = DateValue(Get(Index[j], "date")))
            => \/ LexLess(Index[i].filePath, Index[j].filePath)
               \/ LexLess(FileNameOf(Index[i]), FileNameOf(Index[j]))

\* C6: two runs on the unchanged tree write the same index: the same
\* records in the same order.
C6_SameIndexEveryRun ==
    \A r \in 1..(Len(emitted) - 1) : emitted[r] = emitted[r + 1]

\* C7: in every index a run writes, no two records share their filePath.
C7_UniqueFilePath ==
    \A r \in 1..Len(emitted) :
        \A i, j \in 1..Len(emitted[r]) :
            emitted[r][i].filePath = emitted[r][j].filePath => i = j

\* C7 witness: an index was written with the records of a.md and s/a.md,
\* two files of the same base name
C7_Witness ==
    /\ Emitted
    /\ \E i, j \in 1..Len(Index) :
          /\ Index[i].filePath = PathString(<<NameA>>)
          /\ Index[j].filePath = PathString(<<NameS, NameA>>)

\* the ellipsis marker
Ellipsis == <<".", ".", ".">>

\* C8: every preview of an emitted index is at most 50 characters plus the
\* ellipsis marker long.
C8_PreviewBound ==
    Emitted =>
        \A i \in 1..Len(Index) :
            "preview" \in DOMAIN Index[i] =>
                Len(Index[i].preview) <= maxWord + Len(Ellipsis)

\* the text after the <meta ...> tag, or the whole text without the tag
BodyAfterTag(fileContent) ==
    IF MetaMatch(fileContent) = Undefined THEN fileContent
    ELSE Drop(fileContent, IndexOf(fileContent, <<">">>))

\* the body of a file as the variant v reads it
BodyFor(v, fileContent) ==
    IF v = "tag" THEN BodyAfterTag(fileContent) ELSE matter(fileContent).content

\* C9: every wordCount is at least 0, and it is 0 exactly when the body of
\* the record's file is empty or blank.
C9_ZeroIffBlankBody ==
    Emitted =>
        \A i \in 1..Len(Index) :
            /\ Index[i].wordCount >= 0
            /\ Index[i].wordCount = 0 <=>
                 Trim(BodyFor(variant, tree[SourceOf(Index[i])])) = <<>>

\* the metadata a file gives by its own leading pattern
DataByPattern(fileContent) ==
    IF StartsWithAt(fileContent, Delimiter, 1) THEN matter(fileContent).data
    ELSE TagData(fileContent)

\* C10: title and date of every record are the ones given by the strategy
\* that matches the leading pattern of its file, whichever script ran.
C10_StrategyByPattern ==
    Emitted =>
        \A i \in 1..Len(Index) :
            LET data == DataByPattern(tree[SourceOf(Index[i])])
            IN  /\ Get(Index[i], "title") = Get(data, kTitle)
                /\ Get(Index[i], "date") = Get(data, kDate)

\* ------------------------------------------------------------------------
\* One file under study: extractArticleInfo on what an author can write
\* ------------------------------------------------------------------------
MaxAttrs == 2

kWordCount == <<"w", "o", "r", "d", "C", "o", "u", "n", "t">>

\* the attributes an author may put into the <meta> tag
TagAttrs ==
    {<<kTitle, <<"A">>>>,
     <<kTitle, <<"a", ">", "b">>>>,
     <<kDate, DateNew>>,
     <<kDesc, <<"d", "d">>>>,
     <<kDesc, <<"i", "t", "'", "s">>>>,
     <<kTags, <<"x", FullWidthComma, " ", "y">>>>,
     <<kTags, <<"x", "'", "y">>>>,
     <<kCover, <<"c">>>>,
     <<kWordCount, <<"9">>>>}

\* the keys an author may put into the front-matter block
FmKeys ==
    {<<kTitle, <<"A">>>>,
     <<kDate, DateNew>>,
     <<kTags, <<"[", "x", ",", " ", "y", "]">>>>,
     <<kCover, <<"c">>>>,
     <<kImage, <<"i">>>>,
     <<kWordCount, <<"9">>>>}

\* the bodies an author may write
Bodies ==
    {<<>>,
     <<"a", "b", " ", "c">>,
     <<"a", "\n", "\n", "b">>,
     Rep("w", LongLen)}

\* the sequences of at most n different members of S
DistinctSeqs(S, n) ==
    {q \in UNION {[1..k -> S] : k \in 0..n} :
        \A i, j \in 1..Len(q) : q[i] = q[j] => i = j}

Writings ==
    {[format |-> "tag", attrs |-> a, body |-> b] :
        a \in DistinctSeqs(TagAttrs, MaxAttrs), b \in Bodies}
    \cup
    {[format |-> "fm", attrs |-> a, body |-> b] :
        a \in DistinctSeqs(FmKeys, MaxAttrs), b \in Bodies}

\* the text of the file the author wrote
TextOf(w) ==
    IF w.format = "tag"
    THEN MetaFile([i \in 1..Len(w.attrs) |-> Attr(w.attrs[i][1], w.attrs[i][2])],
                  w.body)
    ELSE FmFile([i \in 1..Len(w.attrs) |-> FmLine(w.attrs[i][1], w.attrs[i][2])],
                w.body)

\* ./articles holds the one file a.md; the scanner has returned it
ExtractInit ==
    /\ variant \in {"tag", "fm"}
    /\ rootExists = TRUE
    /\ written \in Writings
    /\ tree = (<<NameA>> :> TextOf(written))
    /\ artifact = NoArtifact
    /\ pc = "map"
    /\ markdownFiles = <<ArticlesRoot \o <<NameA>>>>
    /\ articles = <<>>
    /\ exitCode = 0
    /\ runs = 1
    /\ emitted = <<>>
    /\ returned = <<>>
    /\ NoBrowser
    /\ dirs = OutputDirs
    /\ sync = NoSync

SpecExtract == ExtractInit /\ [][Map]_vars

\* extractArticleInfo has returned the record of the file under study
Extracted == written.format # "none" /\ pc = "sort"

Record == articles[1]

\* the values the author wrote for a key, in written order
ValuesOf(key) ==
    LET hits == SelectSeq(written.attrs, LAMBDA a : a[1] = key)
    IN  [i \in 1..Len(hits) |-> hits[i][2]]

\* a tag file read by the tag variant
TagOnTag == Extracted /\ variant = "tag" /\ written.format = "tag"

\* C11: in the tag variant, when the tag carries a desc attribute, the
\* record's preview is the value written between the attribute's quotes,
\* character for character.
C11_PreviewIsDescVerbatim ==
    (TagOnTag /\ Len(ValuesOf(kDesc)) = 1) =>
        Record.preview = ValuesOf(kDesc)[1]

\* the summary derived from a body: its first non-blank lines joined,
\* cut at maxWord characters
Summary(body) ==
    Take(Join(Take(NonBlank(Split(body, "\n")), 5), <<" ">>), maxWord)

\* C12: in the tag variant, when the tag carries no desc attribute, the
\* record's preview is the summary derived from the body, never a missing
\* value.
C12_PreviewDerivedWithoutDesc ==
    (TagOnTag /\ ValuesOf(kDesc) = <<>>) =>
        /\ Record.preview # Undefined
        /\ Take(Record.preview, maxWord) = Summary(written.body)

\* a tags value split on the full-width comma, every element trimmed
ElementsOf(value) ==
    LET parts == Split(value, FullWidthComma)
    IN  [i \in 1..Len(parts) |-> Trim(parts[i])]

\* C13: in the tag variant, tags is always an array: the elements of the
\* attribute value in written order when the attribute is present, the
\* empty array when it is absent.
C13_TagsAlwaysArray ==
    /\ (TagOnTag /\ Len(ValuesOf(kTags)) = 1) =>
           Record.tags = ElementsOf(ValuesOf(kTags)[1])
    /\ (TagOnTag /\ ValuesOf(kTags) = <<>>) => Record.tags = <<>>

\* a file of the variant's own format
OwnFormat == Extracted /\ variant = written.format

\* C14: in both variants cover is a string: the cover value, else (in the
\* front-matter variant) the image value, else the empty string.
C14_CoverIsString ==
    OwnFormat =>
        /\ Record.cover # Undefined
        /\ Record.cover =
              IF Len(ValuesOf(kCover)) > 0
              THEN ValuesOf(kCover)[Len(ValuesOf(kCover))]
              ELSE IF variant = "fm" /\ Len(ValuesOf(kImage)) > 0
              THEN ValuesOf(kImage)[Len(ValuesOf(kImage))]
              ELSE <<>>

\* ------------------------------------------------------------------------
\* The write of the index
\* ------------------------------------------------------------------------
\* extractArticleInfo has returned for every scanned file
AllExtracted ==
    /\ Len(articles) = Len(markdownFiles)
    /\ \A i \in 1..Len(markdownFiles) :
          \E j \in 1..Len(articles) :
             articles[j].filePath = RecordPath(markdownFiles[i])

NoSource == \A f \in DOMAIN tree : ExtName(f[Len(f)]) # DotMd

MaxCalls == 2

NameN == <<"n", ".", "t", "x", "t">>
NameD == <<"d", ".", "m", "d">>

\* paths relative to ./articles; s and d.md are directories
ScanPaths ==
    {<<NameA>>, <<NameN>>, <<NameS, NameA>>, <<NameS, NameN>>,
     <<NameD, NameA>>, <<NameS, NameS, NameA>>}

ScanOrders ==
    LET names == <<NameA, NameN, NameS, NameD>>
    IN  {[i \in 1..Len(names) |-> names[p[i]]] : p \in Perms(Len(names))}

ScanTrees == UNION {[ps -> {Plain}] : ps \in SUBSET ScanPaths}

ScanInit ==
    /\ variant \in {"tag", "fm"}
    /\ rootExists = TRUE
    /\ tree \in ScanTrees
    /\ artifact = NoArtifact
    /\ pc = "scan"
    /\ markdownFiles = <<>>
    /\ articles = <<>>
    /\ exitCode = 0
    /\ runs = 1
    /\ emitted = <<>>
    /\ written = NotWritten
    /\ returned = <<>>
    /\ NoBrowser
    /\ dirs = OutputDirs
    /\ sync = NoSync

\* getMarkdownFiles('./articles') is called and returns
CallScanner ==
    /\ pc = "scan"
    /\ Len(returned) < MaxCalls
    /\ \E ord \in ScanOrders :
          returned' = Append(returned, getMarkdownFiles(ArticlesRoot, ord))
    /\ UNCHANGED <<variant, rootExists, tree, artifact, pc, markdownFiles,
                   articles, exitCode, runs, emitted, written, browser, dirs,
                   sync>>

SpecScan == ScanInit /\ [][CallScanner]_vars

\* the full paths of the tree's files with the extension .md
SourceFiles ==
    {ArticlesRoot \o f : f \in {g \in DOMAIN tree : ExtName(BaseName(g)) = DotMd}}

SameBodyNoMetadata == TextOf([written EXCEPT !.attrs = <<>>])

\* C20: wordCount comes from the body only: the file under study gets the
\* wordCount of the file with the same body and an empty tag or block,
\* whatever attributes or keys (an author-written wordCount included) it
\* carries, in both variants.
C20_WordCountFromBodyOnly ==
    OwnFormat =>
        Record.wordCount =
            extractArticleInfo(variant, markdownFiles[1],
                               SameBodyNoMetadata).wordCount

\* ------------------------------------------------------------------------
\* The site in the browser
\* ------------------------------------------------------------------------
MaxClientFiles == 2

UpperCase == <<"A", "B", "C", "D", "E", "F", "G", "H", "I", "J", "K", "L", "M",
               "N", "O", "P", "Q", "R", "S", "T", "U", "V", "W", "X", "Y", "Z">>

LowerCase == <<"a", "b", "c", "d", "e", "f", "g", "h", "i", "j", "k", "l", "m",
               "n", "o", "p", "q", "r", "s", "t", "u", "v", "w", "x", "y", "z">>

\* s.toLowerCase()
toLowerCase(s) ==
    [i \in 1..Len(s) |->
        IF \E k \in 1..Len(UpperCase) : UpperCase[k] = s[i]
        THEN LowerCase[CHOOSE k \in 1..Len(UpperCase) : UpperCase[k] = s[i]]
        ELSE s[i]]

\* s.includes(p)
includes(s, p) == p = <<>> \/ IndexOf(s, p) > 0

\* `${v}`: the text a template literal gives for a value
StringOf(v) ==
    IF v = Undefined THEN <<"u", "n", "d", "e", "f", "i", "n", "e", "d">>
    ELSE v

\* the term performSearch looks for: index.js trims it, main.js does not
SearchTerm(version, value) ==
    IF version = "index.js" THEN Trim(toLowerCase(value))
    ELSE toLowerCase(value)

\* the filter callback ends by a TypeError: toLowerCase of undefined
CallbackThrows(article, term) ==
    IF Get(article, "title") = Undefined THEN TRUE
    ELSE IF includes(toLowerCase(article.title), term) THEN FALSE
    ELSE Get(article, "preview") = Undefined

\* the filter callback's value
CallbackKeeps(article, term) ==
    \/ includes(toLowerCase(article.title), term)
    \/ includes(toLowerCase(article.preview), term)
    \/ \E i \in 1..Len(article.tags) :
          includes(toLowerCase(article.tags[i]), term)

\* the event object a click listener is called with
ClickEvent == <<"[object PointerEvent]">>

\* a search that keeps its result in allArticles
performSearchInPlace(arg, value) ==
    LET noString == listVersion = "index.js" /\ arg = ClickEvent
        term == IF noString THEN <<>> ELSE SearchTerm(listVersion, value)
        threw == \/ noString
                 \/ /\ term # <<>>
                    /\ \E i \in 1..Len(allArticles) :
                          CallbackThrows(allArticles[i], term)
    IN  /\ searched' = [called |-> TRUE,
                        by |-> IF arg = ClickEvent THEN "click" ELSE "enter",
                        term |-> value, threw |-> threw]
        /\ rendered' =
              IF threw THEN rendered
              ELSE IF term = <<>> THEN allArticles
              ELSE SelectSeq(allArticles, LAMBDA a : CallbackKeeps(a, term))
        /\ allArticles' = rendered'

\* performSearch called with arg while the input holds value, the grid
\* included.  index.js takes the term from its argument and fails with a
\* TypeError when that is no string; main.js reads the input.  The filter
\* builds a new array.
performSearch(arg, value) ==
    LET noString == listVersion = "index.js" /\ arg = ClickEvent
        term == IF noString THEN <<>> ELSE SearchTerm(listVersion, value)
        threw == \/ noString
                 \/ /\ term # <<>>
                    /\ \E i \in 1..Len(allArticles) :
                          CallbackThrows(allArticles[i], term)
    IN  /\ searched' = [called |-> TRUE,
                        by |-> IF arg = ClickEvent THEN "click" ELSE "enter",
                        term |-> value, threw |-> threw]
        /\ rendered' =
              IF threw THEN rendered
              ELSE IF term = <<>> THEN allArticles
              ELSE SelectSeq(allArticles, LAMBDA a : CallbackKeeps(a, term))
        /\ allArticles' = allArticles

\* what the visitor may type into the search input
SearchValues == {<<>>, <<"a">>, <<" ", "A">>, <<"x">>, <<"q">>}

\* the texts of the files of a published tree
ClientCorpus == {TagFull, TagOld, FmFull, Plain}

ClientTrees ==
    UNION {[ps -> ClientCorpus] :
             ps \in {q \in SUBSET Paths : Cardinality(q) <= MaxClientFiles}}

\* a build has run and the list page has handled DOMContentLoaded
ClientInit ==
    /\ variant \in {"tag", "fm"}
    /\ rootExists = TRUE
    /\ tree \in ClientTrees
    /\ \E ord \in Orders : markdownFiles = getMarkdownFiles(ArticlesRoot, ord)
    /\ \E recs \in {[i \in 1..Len(markdownFiles) |->
                        extractArticleInfo(variant, markdownFiles[i],
                                           readFileSync(markdownFiles[i]))]} :
          articles \in SortedArticles(variant, recs)
    /\ artifact = [exists |-> TRUE, data |-> Stringify(articles)]
    /\ emitted = <<Stringify(articles)>>
    /\ pc = "done"
    /\ exitCode = 0
    /\ runs = 1
    /\ written = NotWritten
    /\ returned = <<>>
    /\ page = "list"
    /\ listVersion \in {"index.js", "main.js"}
    /\ apiVersion \in {"bySlug", "byFilePath", "byFilePathAsync"}
    /\ allArticles = IF listVersion = "index.js" THEN artifact.data ELSE <<>>
    /\ loaded = IF listVersion = "index.js" THEN "yes" ELSE "pending"
    /\ rendered = allArticles
    /\ searched = NoSearch
    /\ slug = <<>>
    /\ fetches = <<>>
    /\ detail = NoDetail
    /\ dirs = OutputDirs
    /\ sync = NoSync

build == <<variant, rootExists, tree, artifact, pc, markdownFiles, articles,
           exitCode, runs, emitted, written, returned, dirs, sync>>

\* main.js: loadArticles, once the fetch of the index has settled
LoadArticles ==
    /\ page = "list"
    /\ listVersion = "main.js"
    /\ loaded = "pending"
    /\ \E ok \in BOOLEAN :
          IF ok
          THEN /\ allArticles' = Index
               /\ rendered' = Index
               /\ loaded' = "yes"
          ELSE /\ loaded' = "failed"
               /\ rendered' = <<>>
               /\ UNCHANGED allArticles
    /\ UNCHANGED <<listVersion, apiVersion, page, searched, slug, fetches,
                   detail>>
    /\ UNCHANGED build

\* the visitor types a value and presses Enter
Search ==
    /\ page = "list"
    /\ \E value \in SearchValues : performSearch(value, value)
    /\ UNCHANGED <<listVersion, apiVersion, page, loaded, slug, fetches,
                   detail>>
    /\ UNCHANGED build

\* the visitor types a value and clicks the search button: the listener is
\* performSearch itself, so it is called with the event
Click ==
    /\ page = "list"
    /\ \E value \in SearchValues : performSearch(ClickEvent, value)
    /\ UNCHANGED <<listVersion, apiVersion, page, loaded, slug, fetches,
                   detail>>
    /\ UNCHANGED build

ArticlesUrl == <<"/", "a", "r", "t", "i", "c", "l", "e", "s", "/">>

\* the position of the record articleData.find returns, 0 for undefined
Find(arr, key, id) ==
    LET hits == {i \in 1..Len(arr) : Get(arr[i], key) = id}
    IN  IF hits = {} THEN 0 ELSE CHOOSE i \in hits : \A j \in hits : i <= j

\* fetchArticleDetail(id) up to its return.  The version of article.api.js
\* looks the record up by `slug` and returns nothing: its promise chain is
\* built and dropped.
fetchArticleDetail(version, id) ==
    LET at == Find(Index, IF version = "bySlug" THEN "slug" ELSE "filePath", id)
    IN  [returned |-> IF version = "bySlug" THEN "undefined" ELSE "promise",
         state |-> IF at = 0 THEN "rejected" ELSE "pending",
         article |-> IF at = 0 THEN NoArticle ELSE Index[at],
         response |-> "none",
         value |-> NoArticle]

\* the slug values of the links the grid shows
LinkSlugs ==
    {StringOf(Get(rendered[i],
                  IF listVersion = "index.js" THEN "filePath" ELSE "slug")) :
        i \in 1..Len(rendered)}

\* a slug typed into the address bar that is no record's
UnknownSlug == <<"z">>

\* the versions of loadArticleDetail
Loaders == {"article.js", "article-detail.js", "article.api.js"}

\* the page once the awaited value v has arrived: article-detail.js takes it
\* for a fetch Response, and `v.ok` is undefined on a record; the other
\* versions fill the title, the date and the word count and then the content
Show(loader, d) ==
    IF loader = "article-detail.js"
    THEN [d EXCEPT !.content = "error"]
    ELSE [d EXCEPT !.fields = TRUE, !.content = "article"]

\* the page once the awaited promise has rejected, or once a property of an
\* awaited `undefined` has been read: the catch block
Catch(d) == [d EXCEPT !.content = "error"]

\* loadArticleDetail up to the point where it waits for the response or ends.
\* What fetchArticleDetail returned is awaited: `undefined` is a value and
\* the first property read on it throws inside the try block, while the
\* promise chain nobody holds rejects with no handler.
loadArticleDetail(loader, d) ==
    LET page0 == [returned |-> d.returned, state |-> d.state,
                  article |-> d.article, response |-> d.response,
                  value |-> d.value, loader |-> loader, fields |-> FALSE,
                  content |-> "loading", unhandled |-> FALSE]
    IN  IF d.returned = "undefined"
        THEN [Catch(page0) EXCEPT !.unhandled = (d.state = "rejected")]
        ELSE IF d.state = "rejected" THEN Catch(page0) ELSE page0

\* loadArticleDetail after the promise of fetchArticleDetail has settled
Resume(d) ==
    IF d.returned = "undefined"
    THEN [d EXCEPT !.unhandled = (d.state = "rejected")]
    ELSE IF d.state = "rejected" THEN Catch(d) ELSE Show(d.loader, d)

\* the visitor opens pages/article.html?slug=id: loadArticleDetail calls
\* fetchArticleDetail(id)
Open ==
    /\ page = "list"
    /\ \E id \in LinkSlugs \cup {UnknownSlug} :
          LET d == fetchArticleDetail(apiVersion, id)
          IN  /\ slug' = id
              /\ \E loader \in Loaders : detail' = loadArticleDetail(loader, d)
              /\ fetches' = IF d.state = "pending"
                            THEN Append(fetches,
                                        ArticlesUrl \o d.article.filePath)
                            ELSE fetches
    /\ page' = "article"
    /\ allArticles' = <<>>
    /\ loaded' = "pending"
    /\ rendered' = <<>>
    /\ searched' = NoSearch
    /\ UNCHANGED <<listVersion, apiVersion>>
    /\ UNCHANGED build

\* {...article, content: markdownContent}
WithContent(article, markdownContent) ==
    ("content" :> markdownContent) @@ article

\* the pending fetch settles.  In article.api.js the last callback names
\* `article`, which is not in its scope: a ReferenceError.
Respond ==
    /\ page = "article"
    /\ detail.state = "pending"
    /\ \E ok \in BOOLEAN :
          detail' = Resume(
             IF ~ok THEN [detail EXCEPT !.state = "rejected",
                                        !.response = "failed"]
             ELSE IF apiVersion = "bySlug"
             THEN [detail EXCEPT !.state = "rejected", !.response = "ok"]
             ELSE [detail EXCEPT
                     !.state = "fulfilled",
                     !.response = "ok",
                     !.value = WithContent(detail.article,
                                           tree[SourceOf(detail.article)])])
    /\ UNCHANGED <<page, listVersion, apiVersion, allArticles, loaded,
                   rendered, searched, slug, fetches>>
    /\ UNCHANGED build

ClientNext == LoadArticles \/ Search \/ Click \/ Open \/ Respond

SpecSite == ClientInit /\ [][ClientNext]_vars

\* C18: for every record R of the index and each version of
\* fetchArticleDetail, the call with R.filePath finds R, issues the one fetch
\* of '/articles/' + R.filePath, and on an OK response resolves to R's fields
\* plus content.
C18_DetailOfEveryRecord ==
    \A i \in 1..Len(Index) :
        (page = "article" /\ slug = Index[i].filePath) =>
            /\ detail.returned = "promise"
            /\ detail.article = Index[i]
            /\ fetches = <<ArticlesUrl \o Index[i].filePath>>
            /\ detail.response = "ok" =>
                  /\ detail.state = "fulfilled"
                  /\ detail.value =
                        WithContent(Index[i], tree[SourceOf(Index[i])])

\* the records the term selects: title, preview or some tag contains it
Matching(arr, term) ==
    IF term = <<>> THEN arr
    ELSE SelectSeq(arr, LAMBDA a :
            \/ /\ "title" \in DOMAIN a
               /\ includes(toLowerCase(a.title), term)
            \/ /\ "preview" \in DOMAIN a
               /\ includes(toLowerCase(a.preview), term)
            \/ \E i \in 1..Len(a.tags) :
                  includes(toLowerCase(a.tags[i]), term))

\* performSearch has been called and has had a search term to work on
TermSearched ==
    /\ searched.called
    /\ ~(listVersion = "index.js" /\ searched.by = "click")

\* every record of the index has a title and a preview
CompleteIndex ==
    \A i \in 1..Len(Index) :
        "title" \in DOMAIN Index[i] /\ "preview" \in DOMAIN Index[i]

\* C19: after performSearch the grid shows exactly the records of the index
\* that the trimmed, lower-cased term selects, in the order of the index
\* (stated for an index whose records all have a title and a preview).
C19_SearchShowsTheMatches ==
    (page = "list" /\ loaded = "yes" /\ TermSearched /\ CompleteIndex) =>
        rendered = Matching(Index, Trim(toLowerCase(searched.term)))

\* ------------------------------------------------------------------------
\* The life of a record: built, published, read by the pages
\* ------------------------------------------------------------------------
LifeInit ==
    /\ Init
    /\ rootExists
    /\ tree \in ClientTrees
    /\ artifact = NoArtifact

\* the emitted artifact is served and the list page is opened
Publish ==
    /\ pc = "done"
    /\ page = "none"
    /\ page' = "list"
    /\ listVersion' \in {"index.js", "main.js"}
    /\ apiVersion' \in {"bySlug", "byFilePath", "byFilePathAsync"}
    /\ allArticles' = IF listVersion' = "index.js" THEN Index ELSE <<>>
    /\ loaded' = IF listVersion' = "index.js" THEN "yes" ELSE "pending"
    /\ rendered' = allArticles'
    /\ UNCHANGED <<searched, slug, fetches, detail>>
    /\ UNCHANGED build

\* one run of the build
Build == Scan \/ Map \/ Sort \/ Write

\* the site is built and then published
LifeNext == (page = "none" /\ Build) \/ Publish \/ ClientNext

SpecLife == LifeInit /\ [][LifeNext]_vars

\* b holds the elements of a, each as often as a does
Reordered(a, b) ==
    /\ Len(a) = Len(b)
    /\ \E p \in Perms(Len(a)) : b = [i \in 1..Len(a) |-> a[p[i]]]

\* C21: a record is not changed after extractArticleInfo returned it: the
\* sorts only reorder the array, the write emits the array as it is, and no
\* step of a page changes the array of the build, the artifact or (in a
\* search) the page's array of records.
C21_RecordsNeverChange ==
    [][/\ (pc = "sort" /\ pc' = "write") => Reordered(articles, articles')
       /\ (pc = "write" /\ pc' = "done") =>
             (articles' = articles /\ artifact'.data = Stringify(articles))
       /\ browser' # browser =>
             (articles' = articles /\ artifact' = artifact)
       /\ (searched' # searched /\ page' = "list") =>
             allArticles' = allArticles
       /\ detail'.state = "fulfilled" =>
             /\ \E i \in 1..Len(Index) : detail'.article = Index[i]
             /\ detail'.value # detail'.article]_vars

\* after the sorts and the write, a search has filtered a two-record index
C21_Witness ==
    /\ page = "list"
    /\ searched.called
    /\ ~searched.threw
    /\ Len(allArticles) = 2
    /\ Len(rendered) < 2

\* ------------------------------------------------------------------------
\* The order of the attributes
\* ------------------------------------------------------------------------
\* the file under study with its attributes in the order p
Permuted(p) ==
    TextOf([written EXCEPT !.attrs = [i \in 1..Len(written.attrs) |->
                                         written.attrs[p[i]]]])

\* no key is written twice
KeysDiffer ==
    \A i, j \in 1..Len(written.attrs) :
        written.attrs[i][1] = written.attrs[j][1] => i = j

\* C22: in the tag variant, a tag whose attributes have different keys gives
\* the same record in whatever order the attributes are written.
C22_AttributeOrderIrrelevant ==
    (TagOnTag /\ KeysDiffer) =>
        \A p \in Perms(Len(written.attrs)) :
            extractArticleInfo(variant, markdownFiles[1], Permuted(p)) = Record

\* ------------------------------------------------------------------------
\* The derived preview
\* ------------------------------------------------------------------------
\* the first (at most 5) non-blank lines of a body joined by single spaces
JoinedLines(body) == Join(Take(NonBlank(Split(body, "\n")), 5), <<" ">>)

\* C23: in the front-matter variant the preview is the joined lines cut to
\* maxWord characters, followed by the ellipsis only when the joined text
\* was longer than maxWord characters.
C23_EllipsisOnlyWhenCut ==
    (OwnFormat /\ variant = "fm") =>
        Record.preview =
            IF Len(JoinedLines(written.body)) > maxWord
            THEN Take(JoinedLines(written.body), maxWord) \o Ellipsis
            ELSE JoinedLines(written.body)

\* ------------------------------------------------------------------------
\* Records without a date among dated ones
\* ------------------------------------------------------------------------
\* C24: in the tag variant the records of the emitted index that have a date
\* are in date-descending order relative to each other, whatever records
\* without a date stand among them.
C24_DatedStayOrdered ==
    (Emitted /\ variant = "tag") =>
        \A i, j \in 1..Len(Index) :
            (i < j /\ Dated(Index[i]) /\ Dated(Index[j])) =>
                DateValue(Index[i].date) >= DateValue(Index[j].date)

\* ------------------------------------------------------------------------
\* Searches over records without title or preview
\* ------------------------------------------------------------------------
\* C25: whatever index the build emitted and whatever the term, performSearch
\* raises no exception, and the grid then shows a selection of the page's
\* records.
C25_SearchNeverThrows ==
    (page = "list" /\ TermSearched) =>
        /\ ~searched.threw
        /\ \A i \in 1..Len(rendered) :
              \E j \in 1..Len(allArticles) : rendered[i] = allArticles[j]

\* ------------------------------------------------------------------------
\* The search button
\* ------------------------------------------------------------------------
\* what pressing Enter shows for the text in the input
ShownOnEnter(value) ==
    LET term == SearchTerm(listVersion, value)
    IN  IF term = <<>> THEN allArticles
        ELSE SelectSeq(allArticles, LAMBDA a : CallbackKeeps(a, term))

\* C26: in index.js a click on the search button raises no exception and
\* shows what pressing Enter shows for the text in the input (stated for an
\* index whose records all have a title and a preview).
C26_ClickIsEnter ==
    (/\ page = "list"
     /\ listVersion = "index.js"
     /\ searched.by = "click"
     /\ CompleteIndex) =>
        /\ ~searched.threw
        /\ rendered = ShownOnEnter(searched.term)

\* the promise of fetchArticleDetail, held or dropped, has settled
Settled == page = "article" /\ detail.state \in {"fulfilled", "rejected"}

\* C27: in every version of the detail page loadArticleDetail ends with the
\* article's fields and content rendered, or with the error message and no
\* article field rendered; every failure of fetchArticleDetail reaches the
\* catch block and no promise rejection is left without a handler.
C27_DetailEndsRenderedOrError ==
    Settled =>
        /\ \/ detail.fields /\ detail.content = "article"
           \/ ~detail.fields /\ detail.content = "error"
        /\ detail.state = "rejected" =>
              detail.content = "error" /\ ~detail.unhandled

\* ------------------------------------------------------------------------
\* The output directory
\* ------------------------------------------------------------------------
\* a first build: the articles root is there, the output directories may not
\* be, and there is no artifact yet
OutInit ==
    /\ variant \in {"tag", "fm"}
    /\ rootExists = TRUE
    /\ tree \in ClientTrees
    /\ artifact = NoArtifact
    /\ pc = "scan"
    /\ markdownFiles = <<>>
    /\ articles = <<>>
    /\ exitCode = 0
    /\ runs = 1
    /\ emitted = <<>>
    /\ written = NotWritten
    /\ returned = <<>>
    /\ NoBrowser
    /\ dirs \in SUBSET OutputDirs
    /\ sync = NoSync

SpecOut == OutInit /\ [][Build]_vars

\* the run has ended, by the write or by an exception
Ended == pc \in {"done", "crashed"}

\* C28: in both variants processArticles makes sure the directory it writes
\* the artifact into exists before the write: a run on a tree with the
\* articles root, whatever output directories exist, completes and produces
\* the artifact.
C28_OutputDirectoryEnsured ==
    Ended =>
        /\ pc = "done"
        /\ OutputDir(variant) \in dirs
        /\ artifact = [exists |-> TRUE, data |-> Stringify(articles)]

\* ------------------------------------------------------------------------
\* The CDN sync
\* ------------------------------------------------------------------------
\* the number of files under the upload directories, all together
MaxSyncFiles == 3

needUploadDir == <<"articles", "data", "covers", "public">>

DirIndex == 1..Len(needUploadDir)

\* what stands at the path of an upload directory: nothing, a directory, or
\* something readdirSync cannot list
DirKinds == {"missing", "dir", "file"}

\* the k-th file under the i-th upload directory
Slots == DirIndex \X (1..MaxSyncFiles)

RECURSIVE Total(_, _)
Total(count, i) == IF i = 0 THEN 0 ELSE count[i] + Total(count, i - 1)

\* getAllFiles(dirPath) for the i-th directory
getAllFiles(s, i) == {f \in Slots : f[1] = i /\ f[2] <= s.count[i]}

SyncInit ==
    /\ variant = "tag"
    /\ rootExists = TRUE
    /\ tree = <<>>
    /\ artifact = NoArtifact
    /\ pc = "scan"
    /\ markdownFiles = <<>>
    /\ articles = <<>>
    /\ exitCode = 0
    /\ runs = 1
    /\ emitted = <<>>
    /\ written = NotWritten
    /\ returned = <<>>
    /\ NoBrowser
    /\ dirs = OutputDirs
    /\ \E kind \in [DirIndex -> DirKinds], count \in [DirIndex -> 0..MaxSyncFiles] :
          /\ \A i \in DirIndex : kind[i] # "dir" => count[i] = 0
          /\ Total(count, Len(needUploadDir)) <= MaxSyncFiles
          /\ sync = [pc |-> "start", at |-> 1, kind |-> kind, count |-> count,
                     up |-> [f \in Slots |-> "none"], log |-> <<>>,
                     status |-> 0]

\* uploadFile(filePath, relativePath) for every file of the directory:
\* putFile is under way for each of them
Uploading(s, i) ==
    [f \in Slots |-> IF f \in getAllFiles(s, i) THEN "inflight" ELSE s.up[f]]

\* syncDirToQiniu(dirName) up to its return or its await.  getAllFiles is
\* called outside the try block: what readdirSync throws leaves
\* syncDirToQiniu and main, and main().catch ends the process with status 1.
syncDirToQiniu(s) ==
    LET i == s.at
    IN  CASE s.kind[i] = "missing" ->
                [s EXCEPT !.log = Append(@, <<"missing", i>>), !.at = i + 1]
          [] s.kind[i] = "file" ->
                [s EXCEPT !.log = Append(@, <<"fatal", i>>),
                          !.pc = "exited", !.status = 1]
          [] OTHER ->
                [s EXCEPT !.log = Append(@, <<"processing", i>>),
                          !.up = Uploading(s, i), !.pc = "await"]

\* main and syncDirToQiniu run on until an await has to wait: Promise.all
\* rejects with the first rejection and resolves once every upload has
\* resolved; the rejection is caught and logged, and main goes on to the next
\* directory
RECURSIVE RunMain(_)
RunMain(s) ==
    IF s.pc = "loop"
    THEN IF s.at > Len(needUploadDir)
         THEN [s EXCEPT !.log = Append(@, <<"all", 0>>), !.pc = "finished"]
         ELSE RunMain(syncDirToQiniu(s))
    ELSE IF s.pc = "await"
    THEN LET files == getAllFiles(s, s.at)
         IN  IF \E f \in files : s.up[f] = "failed"
             THEN RunMain([s EXCEPT !.log = Append(@, <<"error", s.at>>),
                                    !.at = @ + 1, !.pc = "loop"])
             ELSE IF \A f \in files : s.up[f] = "ok"
             THEN RunMain([s EXCEPT !.log = Append(@, <<"done", s.at>>),
                                    !.at = @ + 1, !.pc = "loop"])
             ELSE s
    ELSE s

\* the state the sync script never touches
outsideSync == <<variant, rootExists, tree, artifact, pc, markdownFiles,
                 articles, exitCode, runs, emitted, written, returned, dirs,
                 browser>>

\* node runs the script: main() up to its first wait
Main ==
    /\ sync.pc = "start"
    /\ sync' = RunMain([sync EXCEPT !.pc = "loop"])
    /\ UNCHANGED outsideSync

\* putFile calls back for one upload, with an error, status 200 or another
\* status; the promise settles and what waits for it runs on
Callback ==
    /\ sync.pc \in {"await", "finished"}
    /\ \E f \in Slots, outcome \in {"ok", "failed"} :
          /\ sync.up[f] = "inflight"
          /\ sync' = RunMain([sync EXCEPT !.up[f] = outcome])
    /\ UNCHANGED outsideSync

\* main has returned and no upload is under way: the process ends
Exit ==
    /\ sync.pc = "finished"
    /\ \A f \in Slots : sync.up[f] # "inflight"
    /\ sync' = [sync EXCEPT !.pc = "exited", !.status = 0]
    /\ UNCHANGED outsideSync

SyncNext == Main \/ Callback \/ Exit

SpecSync == SyncInit /\ [][SyncNext]_vars

\* the uploads under way
InFlight == {f \in Slots : sync.up[f] = "inflight"}

Logged(entry) == \E n \in 1..Len(sync.log) : sync.log[n] = entry

\* C29: the upload directories are processed strictly one after another: no
\* upload of a later directory is started while an upload of an earlier one
\* is still under way, also after a failed upload; a missing directory is
\* skipped without any upload.
C29_OneDirectoryAtATime ==
    sync.pc # "idle" =>
        /\ \A f \in InFlight, g \in InFlight : f[1] = g[1]
        /\ \A i \in DirIndex :
              (sync.kind[i] = "missing" /\ sync.pc # "start" /\ sync.at > i) =>
                  /\ Logged(<<"missing", i>>)
                  /\ ~Logged(<<"processing", i>>)
                  /\ \A f \in Slots : f[1] = i => sync.up[f] = "none"

\* the process has ended
Exited == sync.pc = "exited"

\* C30: when the sync has logged that all files are synchronised and ended
\* with status 0, every file under every existing upload directory has been
\* uploaded with status 200; when an upload has failed, the run does not
\* report overall success and ends with a non-zero status.
C30_SuccessMeansAllUploaded ==
    Exited =>
        /\ (Logged(<<"all", 0>>) /\ sync.status = 0) =>
              \A i \in DirIndex : \A f \in getAllFiles(sync, i) :
                  sync.up[f] = "ok"
        /\ (\E f \in Slots : sync.up[f] = "failed") =>
              ~Logged(<<"all", 0>>) /\ sync.status # 0

====
